---- MODULE Spec2Model ----
(***************************************************************************)
(* A model of neuron_init.py: the builder of the myelinated fibre          *)
(* (make_MRG_fiber) and the bisection search for the firing threshold      *)
(* (find_threshold, with attach_vector_stim, record_section_v, run_sim).   *)
(*                                                                         *)
(* The NEURON solver is outside the program.  Of it the model keeps what   *)
(* the program touches: the registry of sections, the connections, the     *)
(* live point-current sources, the attached recorders, the global          *)
(* tstop/dt/initial potential, and the peak of the recorded trace of a     *)
(* run.  That peak is any of the values of Peaks, but a solver run is      *)
(* deterministic: the same scaled waveform always gives the same peak.     *)
(*                                                                         *)
(* Scale factors are dyadic rationals, kept as integers in units of        *)
(* 1/Unit with Unit = 2^MaxIters, so that every midpoint 0.5*(lo+hi) the   *)
(* search can form within MaxIters iterations is exact, as it is in        *)
(* double precision for such inputs.                                       *)
(***************************************************************************)
EXTENDS Integers, Sequences, FiniteSets, TLC

\* ------------------------------------------------------------------------
\* Bounds of the model
\* ------------------------------------------------------------------------
MaxNodes == 3
MaxIters == 3

RECURSIVE Pow2(_)
Pow2(k) == IF k = 0 THEN 1 ELSE 2 * Pow2(k - 1)

Unit == Pow2(MaxIters)

\* inputs of make_MRG_fiber
Diameters == {1, 4}
NodeCounts == 0..MaxNodes

\* inputs of find_threshold (scales and tolerances in units of 1/Unit)
ScaleInputs == {0, Unit, 2 * Unit}
Tolerances == {0, 1, 3, Unit}
IterBudgets == 0..MaxIters
\* (tvec_ms, base_waveform_nA): a valid waveform, mismatched lengths,
\* decreasing times, a single sample, no sample
Waveforms ==
  { <<(<<0, 1>>), (<<0, 1>>)>>,
    <<(<<0, 1>>), (<<1>>)>>,
    <<(<<1, 0>>), (<<0, 1>>)>>,
    <<(<<0>>), (<<1>>)>>,
    <<(<<>>), (<<>>)>> }
\* the peak of the recorded membrane potential (mV) a run can produce
Peaks == {-80, 0, 30}

\* Python's None is the empty sequence, and a value x is <<x>>
None == <<>>
Some(x) == <<x>>

\* ------------------------------------------------------------------------
\* Program constants
\* ------------------------------------------------------------------------
DT == 25             \* 0.025 ms, in microseconds
DEFAULT_RA == 70
CM_NODE == 100       \* 1.0 uF/cm2, in units of 0.01
CM_INTERNODE == 2    \* 0.02 uF/cm2, in units of 0.01
E_LEAK == -80

Max(a, b) == IF a >= b THEN a ELSE b

\* diam_um**0.5 on the perfect squares of Diameters
Sqrt(d) == CHOOSE r \in 0..d : r * r = d

internode_length_from_diam(diam) == Max(50, 100 * diam)
node_length_um == 1
paranode_length_um(diam) == Max(1, 3 * Sqrt(diam))
juxta_length_um(diam) == Max(5, 10 * Sqrt(diam))

VARIABLES
  pc,            \* position in the program
  diam_um, n_nodes, i,
  nodes, paranos, juxtas, interns,     \* the lists of make_MRG_fiber
  registry,      \* the solver's sections (h.Section objects created)
  conns,         \* the solver's connections
  fiber,         \* the dict returned by make_MRG_fiber, or None
  tvec_ms, base_waveform_nA, scale_lo, scale_hi, tol, max_iters,
  record_node_index,
  recorders,     \* the sections a recorder was attached to, in order
  lo, hi, it, mid_s, ev, result, exception,
  tpc,           \* position inside test_scale
  s,             \* the argument of the running test_scale
  liveStims,     \* the point-current sources alive in the solver
  nStims,        \* the number of IClamp objects created so far
  hGlobal,       \* the solver's globals: tstop, dt, the initial potential, and
                 \* whether the state is the initial one (finitialize, no run since)
  runs,          \* the number of h.run() calls
  rec_v,         \* the peak of the recorded trace after the last run
  memo,          \* the peaks of the runs so far, by scaled waveform
  trials         \* the completed trials: scale and outcome

buildVars == <<diam_um, n_nodes, i, nodes, paranos, juxtas, interns, registry,
               conns, fiber>>
inputVars == <<tvec_ms, base_waveform_nA, scale_lo, scale_hi, tol, max_iters,
               record_node_index>>
searchVars == <<lo, hi, it, mid_s, result>>
trialVars == <<tpc, s, liveStims, nStims, hGlobal, runs, rec_v, memo>>
vars == <<pc, buildVars, inputVars, recorders, searchVars, ev, exception,
          trialVars, trials>>

Init ==
  /\ pc = "start"
  /\ diam_um = 0 /\ n_nodes = 0 /\ i = 0
  /\ nodes = <<>> /\ paranos = <<>> /\ juxtas = <<>> /\ interns = <<>>
  /\ registry = {} /\ conns = {} /\ fiber = None
  /\ tvec_ms = <<>> /\ base_waveform_nA = <<>>
  /\ scale_lo = 0 /\ scale_hi = 0 /\ tol = 0 /\ max_iters = 0
  /\ record_node_index = None
  /\ recorders = <<>>
  /\ lo = 0 /\ hi = 0 /\ it = 0 /\ mid_s = 0 /\ ev = FALSE
  /\ result = None /\ exception = "None"
  /\ tpc = "idle" /\ s = 0
  /\ liveStims = {} /\ nStims = 0
  /\ hGlobal = [tstop |-> 0, dt |-> 0, v_init |-> 0, initialized |-> FALSE]
  /\ runs = 0 /\ rec_v = <<>>
  /\ memo = <<>>
  /\ trials = <<>>

\* ------------------------------------------------------------------------
\* make_MRG_fiber
\* ------------------------------------------------------------------------
Section(kind, k, L, diam, cm, mech) ==
  [name |-> <<kind, k>>, L |-> L, diam |-> diam, Ra |-> DEFAULT_RA, nseg |-> 1,
   cm |-> cm, mech |-> mech, e |-> E_LEAK]

NodeSection(k, diam) == Section("node", k, node_length_um, diam, CM_NODE, "hh")
ParanodeSection(k, diam) ==
  Section("paranode", k, paranode_length_um(diam), diam, CM_INTERNODE, "pas")
JuxtaSection(k, diam) ==
  Section("juxta", k, juxta_length_um(diam), diam, CM_INTERNODE, "pas")
InternSection(k, diam) ==
  Section("intern", k, internode_length_from_diam(diam), diam, CM_INTERNODE, "pas")

\* line 93: a node is followed by a paranode/juxtaparanode/internode group
HasGroupNoLast(k, n) == k < n
HasGroup(k, n) == k < n - 1

\* h.Section.connect: child.connect(parent(1.0)) puts the child's 0 end on the
\* parent's 1 end
Conn(child, parent) == [child |-> child, childEnd |-> 0, parent |-> parent, parentLoc |-> 1]

\* lines 136-139: the connections made for group k
ConnectionsBranch(k) ==
  { Conn(<<"paranode", k>>, <<"node", k>>),
    Conn(<<"juxta", k>>, <<"paranode", k>>),
    Conn(<<"intern", k>>, <<"juxta", k>>),
    Conn(<<"node", k + 1>>, <<"juxta", k>>) }
Connections(k) ==
  { Conn(<<"paranode", k>>, <<"node", k>>),
    Conn(<<"juxta", k>>, <<"paranode", k>>),
    Conn(<<"intern", k>>, <<"juxta", k>>),
    Conn(<<"node", k + 1>>, <<"intern", k>>) }

\* line 146
MidIdx(ns) == Len(ns) \div 2

\* line 60: the call, and lines 67-70
make_MRG_fiber ==
  /\ pc = "start"
  /\ \E d \in Diameters, n \in NodeCounts :
       /\ diam_um' = d
       /\ n_nodes' = n
  /\ i' = 0
  /\ pc' = "node"
  /\ UNCHANGED <<nodes, paranos, juxtas, interns, registry, conns, fiber>>
  /\ UNCHANGED <<inputVars, recorders, searchVars, ev, exception, trialVars, trials>>

\* lines 73-93
CreateNode ==
  /\ pc = "node"
  /\ i < n_nodes
  /\ registry' = registry \cup {NodeSection(i, diam_um)}
  /\ nodes' = Append(nodes, <<"node", i>>)
  /\ IF HasGroup(i, n_nodes)
       THEN pc' = "paranode" /\ i' = i
       ELSE pc' = "node" /\ i' = i + 1
  /\ UNCHANGED <<diam_um, n_nodes, paranos, juxtas, interns, conns, fiber>>
  /\ UNCHANGED <<inputVars, recorders, searchVars, ev, exception, trialVars, trials>>

\* lines 95-104
CreateParanode ==
  /\ pc = "paranode"
  /\ registry' = registry \cup {ParanodeSection(i, diam_um)}
  /\ paranos' = Append(paranos, <<"paranode", i>>)
  /\ pc' = "juxta"
  /\ UNCHANGED <<diam_um, n_nodes, i, nodes, juxtas, interns, conns, fiber>>
  /\ UNCHANGED <<inputVars, recorders, searchVars, ev, exception, trialVars, trials>>

\* lines 107-116
CreateJuxta ==
  /\ pc = "juxta"
  /\ registry' = registry \cup {JuxtaSection(i, diam_um)}
  /\ juxtas' = Append(juxtas, <<"juxta", i>>)
  /\ pc' = "intern"
  /\ UNCHANGED <<diam_um, n_nodes, i, nodes, paranos, interns, conns, fiber>>
  /\ UNCHANGED <<inputVars, recorders, searchVars, ev, exception, trialVars, trials>>

\* lines 119-128, and the next turn of the loop
CreateIntern ==
  /\ pc = "intern"
  /\ registry' = registry \cup {InternSection(i, diam_um)}
  /\ interns' = Append(interns, <<"intern", i>>)
  /\ i' = i + 1
  /\ pc' = "node"
  /\ UNCHANGED <<diam_um, n_nodes, nodes, paranos, juxtas, conns, fiber>>
  /\ UNCHANGED <<inputVars, recorders, searchVars, ev, exception, trialVars, trials>>

\* line 73 exhausted; line 135 begins
NodesDone ==
  /\ pc = "node"
  /\ ~(i < n_nodes)
  /\ i' = 0
  /\ pc' = "connect"
  /\ UNCHANGED <<diam_um, n_nodes, nodes, paranos, juxtas, interns, registry,
                 conns, fiber>>
  /\ UNCHANGED <<inputVars, recorders, searchVars, ev, exception, trialVars, trials>>

\* lines 135-139
Connect ==
  /\ pc = "connect"
  /\ i < Len(nodes) - 1
  /\ conns' = conns \cup Connections(i)
  /\ i' = i + 1
  /\ UNCHANGED <<pc, diam_um, n_nodes, nodes, paranos, juxtas, interns, registry,
                 fiber>>
  /\ UNCHANGED <<inputVars, recorders, searchVars, ev, exception, trialVars, trials>>

\* lines 141-148
BuildReturn ==
  /\ pc = "connect"
  /\ ~(i < Len(nodes) - 1)
  /\ fiber' = Some([nodes |-> nodes, paranos |-> paranos, juxtas |-> juxtas,
                    interns |-> interns, mid_idx |-> MidIdx(nodes)])
  /\ pc' = "built"
  /\ UNCHANGED <<diam_um, n_nodes, i, nodes, paranos, juxtas, interns, registry,
                 conns>>
  /\ UNCHANGED <<inputVars, recorders, searchVars, ev, exception, trialVars, trials>>

\* ------------------------------------------------------------------------
\* Stimulation utilities and the threshold search
\* ------------------------------------------------------------------------
\* Python's list indexing: a negative index counts from the end
PyIndexOk(idx, len) == -len <= idx /\ idx < len
PyIndex(idx, len) == IF idx < 0 THEN idx + len ELSE idx

\* line 194
RecIdx(rni, ns) == IF rni # None THEN rni[1] ELSE Len(ns) - 1

\* line 199: (base_waveform_nA * s).tolist()
ScaleWave(base, scale) == [k \in DOMAIN base |-> base[k] * scale]

\* line 203: Vm.max() > 0.0
Fired(vmax) == vmax > 0

\* line 206
HiFailedNever(e) == FALSE
HiFailed(e) == ~e

\* line 209
LoFired(e) == e

\* line 210
LoResultHi(slo, shi) == shi
LoResult(slo, shi) == slo

\* line 213: range(max_iters) has another value
InRangeOneMore(k, n) == k <= n
InRange(k, n) == k < n

\* line 214
MidpointLow(a, b) == a
Midpoint(a, b) == (a + b) \div 2

\* lines 216-219
NewHi(e, h, m) == IF e THEN m ELSE h
NewLo(e, l, m) == IF e THEN l ELSE m

\* line 220
BreakCondWide(h, l, t) == (h - l) < 2 * t + 2
BreakCond(h, l, t) == (h - l) < t

\* the end of test_scale: its locals stim, vt, vi go out of scope, and the
\* solver drops a point process nothing refers to
Release(live, id) == { st \in live : st.id # id }

\* lines 176-178: what run_sim leaves in the solver's globals before h.run()
RunSimNoInit(tstop, g) == [g EXCEPT !.tstop = tstop, !.dt = DT]
RunSimSetup(tstop, g) ==
  [tstop |-> tstop, dt |-> DT, v_init |-> E_LEAK, initialized |-> TRUE]

\* what the solver integrates: every live source, its site and its waveform
SolverInput == { [node |-> st.node, tvec |-> st.tvec, wave |-> st.wave] : st \in liveStims }

TrialPcs == {"test_hi", "test_lo", "test_mid"}
TrialArg == CASE pc = "test_hi" -> scale_hi
              [] pc = "test_lo" -> scale_lo
              [] pc = "test_mid" -> mid_s
AfterTrial == CASE pc = "test_hi" -> "check_hi"
                [] pc = "test_lo" -> "check_lo"
                [] pc = "test_mid" -> "update"

\* line 184: the call, and lines 192-195 with record_section_v (168-173)
find_threshold ==
  /\ pc = "built"
  /\ \E w \in Waveforms, slo \in ScaleInputs, shi \in ScaleInputs,
        t \in Tolerances, m \in IterBudgets, rni \in {None, Some(0)} :
       /\ tvec_ms' = w[1]
       /\ base_waveform_nA' = w[2]
       /\ scale_lo' = slo
       /\ scale_hi' = shi
       /\ tol' = t
       /\ max_iters' = m
       /\ record_node_index' = rni
       /\ LET rec_idx == RecIdx(rni, fiber[1].nodes) IN
          IF PyIndexOk(rec_idx, Len(fiber[1].nodes))
            THEN /\ recorders' =
                      Append(recorders, fiber[1].nodes[PyIndex(rec_idx, Len(fiber[1].nodes)) + 1])
                 /\ pc' = "test_hi"
                 /\ exception' = exception
            ELSE /\ recorders' = recorders
                 /\ pc' = "raised"
                 /\ exception' = "IndexError"
  /\ UNCHANGED <<buildVars, searchVars, ev, trialVars, trials>>

\* line 199, attach_vector_stim (lines 160-166)
TrialAttach ==
  /\ pc \in TrialPcs
  /\ tpc = "idle"
  /\ s' = TrialArg
  /\ nStims' = nStims + 1
  /\ liveStims' = liveStims \cup
       {[id |-> nStims + 1, node |-> fiber[1].nodes[fiber[1].mid_idx + 1],
         tvec |-> tvec_ms, wave |-> ScaleWave(base_waveform_nA, TrialArg)]}
  /\ tpc' = "attached"
  /\ UNCHANGED <<pc, buildVars, inputVars, recorders, searchVars, ev, exception,
                 hGlobal, runs, rec_v, memo, trials>>

\* line 200: tvec_ms[-1] of an empty series
TrialStopTimeError ==
  /\ pc \in TrialPcs
  /\ tpc = "attached"
  /\ Len(tvec_ms) = 0
  /\ pc' = "raised"
  /\ exception' = "IndexError"
  /\ UNCHANGED <<buildVars, inputVars, recorders, searchVars, ev, trialVars, trials>>

\* line 200 and run_sim, lines 176-178
TrialInit ==
  /\ pc \in TrialPcs
  /\ tpc = "attached"
  /\ Len(tvec_ms) > 0
  /\ hGlobal' = RunSimSetup(tvec_ms[Len(tvec_ms)] + 5, hGlobal)
  /\ tpc' = "initialized"
  /\ UNCHANGED <<pc, buildVars, inputVars, recorders, searchVars, ev, exception,
                 s, liveStims, nStims, runs, rec_v, memo, trials>>

\* line 179: h.run(); the recorder holds the trace of this run
TrialRun ==
  /\ pc \in TrialPcs
  /\ tpc = "initialized"
  /\ \E v \in Peaks :
       /\ \A k \in DOMAIN memo : memo[k].input = SolverInput => memo[k].peak = v
       /\ rec_v' = <<v>>
       /\ memo' = IF \E k \in DOMAIN memo : memo[k].input = SolverInput
                    THEN memo
                    ELSE Append(memo, [input |-> SolverInput, peak |-> v])
  /\ hGlobal' = [hGlobal EXCEPT !.initialized = FALSE]
  /\ runs' = runs + 1
  /\ tpc' = "ran"
  /\ UNCHANGED <<pc, buildVars, inputVars, recorders, searchVars, ev, exception,
                 s, liveStims, nStims, trials>>

\* lines 201-203, and the return of test_scale
TrialReturn ==
  /\ pc \in TrialPcs
  /\ tpc = "ran"
  /\ ev' = Fired(rec_v[1])
  /\ liveStims' = Release(liveStims, nStims)
  /\ trials' = Append(trials, [scale |-> s, fired |-> Fired(rec_v[1])])
  /\ tpc' = "idle"
  /\ pc' = AfterTrial
  /\ UNCHANGED <<buildVars, inputVars, recorders, searchVars, exception,
                 s, nStims, hGlobal, runs, rec_v, memo>>

\* lines 206-208
CheckHi ==
  /\ pc = "check_hi"
  /\ IF HiFailed(ev)
       THEN pc' = "done" /\ result' = None
       ELSE pc' = "test_lo" /\ result' = result
  /\ UNCHANGED <<buildVars, inputVars, recorders, lo, hi, it, mid_s, ev, exception,
                 trialVars, trials>>

\* lines 209-212
CheckLo ==
  /\ pc = "check_lo"
  /\ IF LoFired(ev)
       THEN /\ pc' = "done"
            /\ result' = Some(LoResult(scale_lo, scale_hi))
            /\ UNCHANGED <<lo, hi>>
       ELSE /\ pc' = "loop"
            /\ lo' = scale_lo
            /\ hi' = scale_hi
            /\ result' = result
  /\ UNCHANGED <<buildVars, inputVars, recorders, it, mid_s, ev, exception,
                 trialVars, trials>>

\* lines 213-214
LoopHead ==
  /\ pc = "loop"
  /\ IF InRange(it, max_iters)
       THEN /\ it' = it + 1
            /\ mid_s' = Midpoint(lo, hi)
            /\ pc' = "test_mid"
       ELSE /\ pc' = "return_hi"
            /\ UNCHANGED <<it, mid_s>>
  /\ UNCHANGED <<buildVars, inputVars, recorders, lo, hi, result, ev, exception,
                 trialVars, trials>>

\* lines 216-221
Update ==
  /\ pc = "update"
  /\ hi' = NewHi(ev, hi, mid_s)
  /\ lo' = NewLo(ev, lo, mid_s)
  /\ pc' = IF BreakCond(hi', lo', tol) THEN "return_hi" ELSE "loop"
  /\ UNCHANGED <<buildVars, inputVars, recorders, it, mid_s, result, ev, exception,
                 trialVars, trials>>

\* line 222
ReturnHi ==
  /\ pc = "return_hi"
  /\ result' = Some(hi)
  /\ pc' = "done"
  /\ UNCHANGED <<buildVars, inputVars, recorders, lo, hi, it, mid_s, ev, exception,
                 trialVars, trials>>

Next ==
  \/ make_MRG_fiber
  \/ CreateNode
  \/ CreateParanode
  \/ CreateJuxta
  \/ CreateIntern
  \/ NodesDone
  \/ Connect
  \/ BuildReturn
  \/ find_threshold
  \/ TrialAttach
  \/ TrialStopTimeError
  \/ TrialInit
  \/ TrialRun
  \/ TrialReturn
  \/ CheckHi
  \/ CheckLo
  \/ LoopHead
  \/ Update
  \/ ReturnHi

Spec == Init /\ [][Next]_vars

\* ------------------------------------------------------------------------
\* Properties
\* ------------------------------------------------------------------------
BuildPcs == {"start", "node", "paranode", "juxta", "intern", "connect", "built"}
Terminated == pc \in {"done", "raised"}

NonDecreasing(seq) == \A k \in 1..(Len(seq) - 1) : seq[k] <= seq[k + 1]
InvalidWaveform(tv, iv) == Len(tv) # Len(iv) \/ ~NonDecreasing(tv) \/ Len(tv) < 2

\* find_threshold was called on a fiber of two nodes or more with a waveform
\* of two samples or more, as many times as currents, the times not decreasing
ValidCall ==
  pc \notin BuildPcs /\ n_nodes >= 2 /\ ~InvalidWaveform(tvec_ms, base_waveform_nA)

\* the first two trials are the precondition trials at scale_hi and scale_lo
BracketValid == Len(trials) >= 2 /\ trials[1].fired /\ ~trials[2].fired

\* the bisection trials that have completed, and the bracket updates made
BisectionTrials == IF Len(trials) > 2 THEN Len(trials) - 2 ELSE 0
UpdatesMade == IF pc = "update" THEN BisectionTrials - 1 ELSE BisectionTrials

SomeTrialFiredAt(x) == \E k \in DOMAIN trials : trials[k].scale = x /\ trials[k].fired

\* C1 as stated: with a valid bracket and tolerance > 0 the call returns hi,
\* hi - lo <= tolerance at termination, and the trial at the returned hi fired.
C1_ConvergenceAsStated ==
  (ValidCall /\ pc = "done" /\ BracketValid /\ tol > 0) =>
     /\ result = Some(hi)
     /\ hi - lo <= tol
     /\ SomeTrialFiredAt(hi)

\* C1 amended: with a valid bracket and tolerance > 0 the call returns hi, the
\* trial at the returned hi fired, and at termination hi - lo < tolerance
\* unless all max_iterations bisection trials have been run.
C1_Convergence ==
  (pc = "done" /\ BracketValid /\ tol > 0) =>
     /\ result = Some(hi)
     /\ SomeTrialFiredAt(hi)
     /\ (hi - lo < tol \/ BisectionTrials = max_iters)

C1_Witness ==
  /\ ValidCall
  /\ pc = "done" /\ BracketValid /\ tol > 0
  /\ BisectionTrials >= 2 /\ BisectionTrials < max_iters
  /\ hi - lo < tol
  /\ result = Some(hi)

\* C2: when the trial at scale_hi does not fire, the call returns None and no
\* number, after exactly one trial: the scale_hi trial is the first, no trial
\* at scale_lo and no bisection iteration is run.
C2_BracketViolation ==
  (Len(trials) >= 1 /\ ~trials[1].fired) =>
     /\ trials[1].scale = scale_hi
     /\ Len(trials) = 1 /\ runs = 1 /\ nStims = 1 /\ it = 0
     /\ tpc = "idle"
     /\ pc \in {"check_hi", "done"}
     /\ (pc = "done" => result = None)

C2_Witness ==
  /\ ValidCall
  /\ pc = "done" /\ Len(trials) = 1 /\ ~trials[1].fired /\ result = None
  /\ scale_lo < scale_hi

\* C3: build with node_count < 2 returns no fiber and creates no compartment
\* in the solver's registry.
C3_InvalidTopology ==
  (pc # "start" /\ n_nodes < 2) => (fiber = None /\ registry = {})

KindCount(kind) == Cardinality({sec \in registry : sec.name[1] = kind})
Distinct(seq) == Cardinality({seq[k] : k \in DOMAIN seq}) = Len(seq)

\* C4: for node_count >= 2 the returned fiber has exactly node_count nodes and
\* node_count - 1 paranodes, juxtaparanodes and internodes; with node_count = 2
\* the stimulation index is 1 and the default recording index is 1.
C4_Counts ==
  (fiber # None /\ n_nodes >= 2) =>
     /\ Len(fiber[1].nodes) = n_nodes /\ Distinct(fiber[1].nodes)
     /\ Len(fiber[1].paranos) = n_nodes - 1 /\ Distinct(fiber[1].paranos)
     /\ Len(fiber[1].juxtas) = n_nodes - 1 /\ Distinct(fiber[1].juxtas)
     /\ Len(fiber[1].interns) = n_nodes - 1 /\ Distinct(fiber[1].interns)
     /\ KindCount("node") = n_nodes
     /\ KindCount("paranode") = n_nodes - 1
     /\ KindCount("juxta") = n_nodes - 1
     /\ KindCount("intern") = n_nodes - 1
     /\ (n_nodes = 2 =>
           /\ fiber[1].mid_idx = 1
           /\ \A st \in liveStims : st.node = <<"node", 1>>
           /\ (recorders # <<>> /\ record_node_index = None
                 => recorders = << <<"node", 1>> >>))

C4_Witness ==
  /\ ValidCall
  /\ fiber # None /\ n_nodes = 2
  /\ Len(fiber[1].paranos) = 1
  /\ record_node_index = None /\ recorders = << <<"node", 1>> >>
  /\ liveStims # {}

TrialLeft == CASE tpc = "idle" -> 4
               [] tpc = "attached" -> 3
               [] tpc = "initialized" -> 2
               [] tpc = "ran" -> 1

\* an upper bound of the steps find_threshold still has to take
Variant ==
  CASE pc = "test_hi" -> 8 * max_iters + 30 + TrialLeft
    [] pc = "check_hi" -> 8 * max_iters + 30
    [] pc = "test_lo" -> 8 * max_iters + 20 + TrialLeft
    [] pc = "check_lo" -> 8 * max_iters + 20
    [] pc = "loop" -> 8 * (max_iters - it) + 10
    [] pc = "test_mid" -> 8 * (max_iters - it) + 11 + TrialLeft
    [] pc = "update" -> 8 * (max_iters - it) + 11
    [] pc = "return_hi" -> 1
    [] OTHER -> 0

C5_Bounded ==
  /\ BisectionTrials <= max_iters
  /\ it <= max_iters
  /\ runs <= max_iters + 2
  /\ nStims <= max_iters + 2
  /\ (pc \notin BuildPcs => Variant >= 0)
  /\ (pc \notin BuildPcs /\ ~Terminated => ENABLED Next)
  /\ (pc = "done" => Len(trials) >= 1)
  /\ (pc = "done" /\ trials[1].fired => result # None)
  /\ (pc = "done" /\ ~trials[1].fired => result = None)

\* C5: find_threshold terminates: every step of the search lowers a bound of
\* the steps left, a search that has not ended can take a step, at most
\* max_iterations bisection trials and max_iterations + 2 solver runs are
\* made, and the call returns a number unless the scale_hi trial did not fire.
C5_Termination ==
  /\ []C5_Bounded
  /\ [][pc \notin BuildPcs => (Variant' < Variant /\ Variant' >= 0)]_vars

C5_Witness ==
  /\ ValidCall
  /\ pc = "done" /\ max_iters >= 2
  /\ BisectionTrials = max_iters /\ runs = max_iters + 2
  /\ hi - lo >= tol
  /\ result = Some(hi)

\* C6: when the trials at scale_hi and at scale_lo both fire, the call returns
\* scale_lo after exactly these two trials, scale_hi first: no bisection
\* iteration is run and the bracket lo, hi is never assigned.
C6_LoFires ==
  (Len(trials) >= 2 /\ trials[1].fired /\ trials[2].fired) =>
     /\ Len(trials) = 2 /\ runs = 2 /\ nStims = 2
     /\ trials[1].scale = scale_hi /\ trials[2].scale = scale_lo
     /\ it = 0 /\ lo = 0 /\ hi = 0 /\ mid_s = 0
     /\ pc \in {"check_lo", "done"}
     /\ (pc = "done" => result = Some(scale_lo))

C6_Witness ==
  /\ ValidCall
  /\ pc = "done" /\ Len(trials) = 2 /\ trials[1].fired /\ trials[2].fired
  /\ 0 < scale_lo /\ scale_lo < scale_hi
  /\ result = Some(scale_lo)

\* C7: with an invalid waveform (lengths differ, times decrease, or fewer than
\* two samples) find_threshold, called on a fiber of two nodes or more,
\* creates no point-current source, attaches no recorder and starts no solver
\* run.
C7_InvalidWaveform ==
  (pc \notin BuildPcs /\ n_nodes >= 2 /\ InvalidWaveform(tvec_ms, base_waveform_nA)) =>
     (nStims = 0 /\ liveStims = {} /\ recorders = <<>> /\ runs = 0)

InBisection == BracketValid /\ pc \in {"loop", "test_mid", "update", "return_hi", "done"}

C8_Bracket ==
  InBisection =>
     /\ (lo = scale_lo \/ \E k \in 3..Len(trials) : trials[k].scale = lo /\ ~trials[k].fired)
     /\ (hi = scale_hi \/ \E k \in 3..Len(trials) : trials[k].scale = hi /\ trials[k].fired)
     /\ (scale_lo < scale_hi =>
           /\ lo < hi /\ scale_lo <= lo /\ hi <= scale_hi
           /\ (hi - lo) * Pow2(UpdatesMade) = scale_hi - scale_lo)
     /\ (pc \in {"loop", "test_mid", "update"} /\ UpdatesMade >= 1 => ~(hi - lo < tol))

C8_Step ==
  pc = "update" =>
     /\ 2 * mid_s = lo + hi
     /\ (hi' = mid_s /\ lo' = lo /\ ev) \/ (lo' = mid_s /\ hi' = hi /\ ~ev)
     /\ (scale_lo < scale_hi =>
           lo' >= lo /\ hi' <= hi /\ lo' < hi' /\ 2 * (hi' - lo') = hi - lo)
     /\ (hi' - lo' < tol <=> pc' = "return_hi")

\* C8: once both precondition trials passed, lo is scale_lo or a midpoint whose
\* trial did not fire and hi is scale_hi or a midpoint whose trial fired; an
\* iteration moves exactly one of lo, hi to mid = (lo+hi)/2; for
\* scale_lo < scale_hi, lo never decreases, hi never increases, lo < hi, and
\* hi - lo is halved by each iteration; the loop stops at the first iteration
\* after which hi - lo < tolerance.
C8_BracketInvariant == []C8_Bracket /\ [][C8_Step]_vars

C8_Witness ==
  /\ ValidCall
  /\ pc = "loop" /\ BracketValid /\ scale_lo < scale_hi
  /\ UpdatesMade >= 2
  /\ lo # scale_lo /\ hi # scale_hi

Compartments == {sec.name : sec \in registry}
Parents(c) == {e.parent : e \in {x \in conns : x.child = c}}
Children(c) == {e.child : e \in {x \in conns : x.parent = c}}

ChainConns(n) ==
  UNION { { Conn(<<"paranode", k>>, <<"node", k>>),
            Conn(<<"juxta", k>>, <<"paranode", k>>),
            Conn(<<"intern", k>>, <<"juxta", k>>),
            Conn(<<"node", k + 1>>, <<"intern", k>>) } : k \in 0..(n - 2) }

RECURSIVE ReachFrom(_)
ReachFrom(S) ==
  LET T == S \cup UNION {Children(c) : c \in S}
  IN IF T = S THEN S ELSE ReachFrom(T)

\* the compartments met by going from c to its parent m times
RECURSIVE Up(_, _)
Up(S, m) == IF m = 0 THEN S ELSE Up(UNION {Parents(c) : c \in S}, m - 1)

C9_Built ==
  (pc = "built" /\ n_nodes >= 1) =>
     /\ conns = ChainConns(n_nodes)
     /\ Cardinality(Compartments) = 4 * n_nodes - 3
     /\ Cardinality(registry) = 4 * n_nodes - 3
     /\ \A c \in Compartments :
          /\ Cardinality(Parents(c)) = (IF c = <<"node", 0>> THEN 0 ELSE 1)
          /\ Cardinality(Children(c)) = (IF c = <<"node", n_nodes - 1>> THEN 0 ELSE 1)
          /\ Up({c}, Cardinality(Compartments)) = {}
     /\ \A e \in conns : e.child \in Compartments /\ e.parent \in Compartments
     /\ ReachFrom({<<"node", 0>>}) = Compartments

\* C9: the fiber make_MRG_fiber returns is a single unbranched chain
\* node[i] -> paranode[i] -> juxta[i] -> intern[i] -> node[i+1]: every
\* compartment but node[0] has exactly one parent, every compartment but the
\* last node exactly one child, and all 4*node_count - 3 compartments are
\* reached from node[0], with no cycle; the search changes none of it.
C9_Chain ==
  /\ []C9_Built
  /\ [][pc \notin BuildPcs => UNCHANGED <<registry, conns, fiber>>]_vars

C9_Witness ==
  /\ pc = "built" /\ n_nodes >= 3
  /\ Conn(<<"node", 2>>, <<"intern", 1>>) \in conns

C10_State ==
  /\ (nStims >= 1 => Len(recorders) = 1)
  /\ Cardinality(liveStims) <= 1
  /\ (tpc = "idle" => liveStims = {})
  /\ (tpc # "idle" => liveStims # {})
  /\ \A st \in liveStims :
       /\ st.id = nStims
       /\ st.node = <<"node", n_nodes \div 2>>
       /\ st.wave = ScaleWave(base_waveform_nA, s)
  /\ nStims = Len(trials) + (IF tpc = "idle" THEN 0 ELSE 1)
  /\ runs = Len(trials) + (IF tpc = "ran" THEN 1 ELSE 0)

C10_Run ==
  runs' # runs =>
     /\ hGlobal.initialized /\ hGlobal.v_init = -80
     /\ Cardinality(liveStims) = 1
     /\ Len(recorders) = 1
     /\ runs' = runs + 1

\* C10: the recorder is attached once, before the first trial; every trial
\* attaches a fresh stimulus at node floor(N/2), initialises the solver at
\* -80 mV before it runs, and its stimulus is released when the trial ends:
\* no run has more than one live stimulus, and none starts uninitialised.
C10_TrialLifecycle == []C10_State /\ [][C10_Run]_vars

C10_Witness ==
  /\ ValidCall
  /\ Len(trials) >= 3 /\ tpc = "ran"
  /\ Cardinality(liveStims) = 1 /\ nStims = 4 /\ runs = 4
====
